---- MODULE Spec2Model ----
(***************************************************************************)
(* Model of src/main/c/cext/args.c: rb_get_kwargs and the keyword error    *)
(* helpers.  One call of rb_get_kwargs is followed statement by statement: *)
(* pc is the position in the function body, n, m and i are the three loop  *)
(* counters.  The hash is a sequence of <<key, value>> pairs in insertion  *)
(* order.  Symbols (IDs) are 1..NumKeys and rb_sym2str maps one to its     *)
(* name; StrKey is a hash key that is a String, not a Symbol.              *)
(***************************************************************************)
EXTENDS Integers, Sequences, FiniteSets, TLC

(* ---- bounds ---- *)
NumKeys == 4
MaxTable == 3
MaxHash == 3
MaxMsgKeys == 3

(* ---- host values ---- *)
Qundef == "Qundef"
Qnil == "nil"
Garbage == "uninitialized"
Vals == {Qnil, "v1", "v2"}
Keys == 1..NumKeys
StrKey == 0
HashKeys == Keys \cup {StrKey}
SymNames == <<"a", "b", "c", "d", "e", "f", "g", "h">>

rb_sym2str(k) == SymNames[k]

(* Check_Type(k, T_SYMBOL) of line 14 passes *)
IsSymbol(k) == k \in Keys

VARIABLES
  keyword_hash,   \* [nil, tbl]: Qnil, or the entries in insertion order
  table,          \* const ID *table, 0-based in C, 1-based here
  required,       \* int required
  optional,       \* int optional (reassigned at line 52)
  values,         \* [null, slot]: NULL, or the caller's buffer
  rest,           \* int rest
  extracted,      \* int extracted
  missing,        \* [nil, ary]: VALUE missing
  n, m, i,        \* loop counters of lines 55, 71, 88
  pc,             \* position in rb_get_kwargs
  ret,            \* returned int
  fault,          \* error word of the raised ArgumentError, "none" if none
  fault_keys,     \* keys array handed to rb_keyword_error
  error_message,  \* message of the raised exception
  null_write,     \* a store through the NULL values pointer was executed
  call_hash,      \* keyword_hash as passed by the caller
  call_optional   \* optional as passed by the caller

vars == <<keyword_hash, table, required, optional, values, rest, extracted,
          missing, n, m, i, pc, ret, fault, fault_keys, error_message,
          null_write, call_hash, call_optional>>

(* ---- hash and array primitives used by args.c ---- *)
NIL_P(h) == h.nil

HasKey(h, key) == \E j \in 1..Len(h.tbl) : h.tbl[j][1] = key

rb_hash_lookup2(h, key, def) ==
  IF HasKey(h, key)
    THEN h.tbl[CHOOSE j \in 1..Len(h.tbl) : h.tbl[j][1] = key][2]
    ELSE def

IsNotKey(e, key) == e[1] # key

rb_hash_delete(h, key) ==
  [h EXCEPT !.tbl = SelectSeq(h.tbl, LAMBDA e : IsNotKey(e, key))]

rb_hash_keys(h) == [j \in 1..Len(h.tbl) |-> h.tbl[j][1]]

RHASH_SIZE(h) == Len(h.tbl)

rb_ary_push(ary, x) == Append(ary, x)

(* ---- rb_keyword_error_new, lines 6-22: the message, or type_error when
   Check_Type raises TypeError on a key that is not a Symbol ---- *)
RECURSIVE KeywordErrorLoop(_, _, _)
KeywordErrorLoop(msg, keys, j) ==
  IF ~IsSymbol(keys[j + 1])
    THEN [type_error |-> TRUE, msg |-> msg]
    ELSE LET withKey == msg \o rb_sym2str(keys[j + 1])
         IN IF j + 1 >= Len(keys)
              THEN [type_error |-> FALSE, msg |-> withKey]
              ELSE KeywordErrorLoop(withKey \o ", ", keys, j + 1)

PluralPrecision_nonempty(len) == IF len > 0 THEN 1 ELSE 0

PluralPrecision(len) == IF len > 1 THEN 1 ELSE 0

rb_keyword_error_new(error, keys) ==
  LET len == Len(keys)
      head == error \o " keyword" \o
              (IF PluralPrecision(len) >= 1 THEN "s" ELSE "")
  IN IF len > 0
       THEN KeywordErrorLoop(head \o ": ", keys, 0)
       ELSE [type_error |-> FALSE, msg |-> head]

(* ---- unknown_keyword_error, lines 28-35: the hash after the deletions ---- *)
RECURSIVE DeleteTableKeys(_, _, _, _)
DeleteTableKeys(h, tbl, keywords, j) ==
  IF j < keywords
    THEN DeleteTableKeys(rb_hash_delete(h, tbl[j + 1]), tbl, keywords, j + 1)
    ELSE h

(* ---- rb_tr_extract_keyword, lines 37-43 ---- *)
ExtractKeywordValue_nil_default(h, key) == rb_hash_lookup2(h, key, Qnil)

ExtractKeywordValue(h, key) == rb_hash_lookup2(h, key, Qundef)

ExtractKeywordHash_never(h, key, vals) == h

ExtractKeywordHash_always(h, key, vals) == rb_hash_delete(h, key)

ExtractKeywordHash(h, key, vals) ==
  IF ~vals.null THEN rb_hash_delete(h, key) ELSE h

(* ---- pieces of rb_get_kwargs ---- *)
DecodeOptional_negate(c) == -c

DecodeOptional(c) == -1 - c

StoreValue_first(vals, idx, val) ==
  IF ~vals.null THEN [vals EXCEPT !.slot[1] = val] ELSE vals

StoreValue(vals, idx, val) ==
  IF ~vals.null THEN [vals EXCEPT !.slot[idx + 1] = val] ELSE vals

CountOptional_always(cnt, val) == cnt + 1

CountOptional(cnt, val) == IF val # Qundef THEN cnt + 1 ELSE cnt

PermittedSize_zero(vals, cnt) == 0

PermittedSize(vals, cnt) == IF ~vals.null THEN 0 ELSE cnt

(* ---- inputs of one call ---- *)
KeySeqs(L) ==
  {s \in [1..L -> HashKeys] : \A a, b \in 1..L : a # b => s[a] # s[b]}

HashTbls ==
  UNION {{[j \in 1..L |-> <<ks[j], vs[j]>>] : ks \in KeySeqs(L), vs \in [1..L -> Vals]}
         : L \in 0..MaxHash}

NilHash == [nil |-> TRUE, tbl |-> <<>>]

Hashes == {NilHash} \cup {[nil |-> FALSE, tbl |-> t] : t \in HashTbls}

Idle ==
  /\ rest = FALSE /\ extracted = 0
  /\ missing = [nil |-> TRUE, ary |-> <<>>]
  /\ n = 0 /\ m = 0 /\ i = 0
  /\ ret = -1
  /\ null_write = FALSE

(* A call: R required and O optional keys, the optional count passed as O or,
   to allow rest, as -1 - O (the convention line 52 decodes).  IDs are only
   compared for equality, so a schema of unique names is taken to be the IDs
   1..R+O in order; the hash ranges over every ordering and subset of all
   the IDs, schema or not, and of a String key.  The buffer, when present,
   has R+O slots the caller has not initialised. *)
Init ==
  /\ \E R \in 0..MaxTable, O \in 0..MaxTable, restArg \in BOOLEAN, nullBuf \in BOOLEAN :
       /\ R + O <= MaxTable
       /\ required = R
       /\ optional = (IF restArg THEN -1 - O ELSE O)
       /\ table = [j \in 1..(R + O) |-> j]
       /\ values = [null |-> nullBuf,
                    slot |-> IF nullBuf THEN <<>> ELSE [j \in 1..(R + O) |-> Garbage]]
  /\ keyword_hash \in Hashes
  /\ call_hash = keyword_hash
  /\ call_optional = optional
  /\ Idle
  /\ pc = "start"
  /\ fault = "none" /\ fault_keys = <<>> /\ error_message = ""

(* rb_keyword_error, lines 24-26: the ArgumentError with the built message,
   or the TypeError of Check_Type, whose text is the host's *)
Raise(error, keys) ==
  LET e == rb_keyword_error_new(error, keys)
  IN /\ pc' = "raised"
     /\ fault' = (IF e.type_error THEN "type" ELSE error)
     /\ fault_keys' = keys
     /\ error_message' = (IF e.type_error THEN "" ELSE e.msg)

NoRaise == UNCHANGED <<fault, fault_keys, error_message>>

(* lines 45-53 *)
Entry ==
  /\ pc = "start"
  /\ rest' = (optional < 0)
  /\ optional' = (IF optional < 0 THEN DecodeOptional(optional) ELSE optional)
  /\ extracted' = 0
  /\ missing' = [nil |-> TRUE, ary |-> <<>>]
  /\ n' = 0
  /\ pc' = "required"
  /\ NoRaise
  /\ UNCHANGED <<keyword_hash, table, required, values, m, i, ret, null_write,
                 call_hash, call_optional>>

(* lines 55-68, one iteration on a hash (or on nil when the host's lookup
   answers "not found") *)
RequiredStep ==
  /\ pc = "required" /\ n < required
  /\ LET val == ExtractKeywordValue(keyword_hash, table[n + 1])
     IN /\ keyword_hash' = ExtractKeywordHash(keyword_hash, table[n + 1], values)
        /\ values' = StoreValue(values, n, val)
        /\ IF val = Qundef
             THEN /\ missing' = [nil |-> FALSE, ary |-> rb_ary_push(<<>>, table[n + 1])]
                  /\ Raise("missing", missing'.ary)
                  /\ UNCHANGED <<extracted, n>>
             ELSE /\ extracted' = extracted + 1
                  /\ n' = n + 1
                  /\ NoRaise
                  /\ UNCHANGED <<missing, pc>>
  /\ UNCHANGED <<table, required, optional, rest, m, i, ret, null_write,
                 call_hash, call_optional>>

(* line 38 on Qnil: rb_hash_lookup2 is host code outside args.c; besides
   answering the default (RequiredStep) it may raise its own exception *)
RequiredNilFault ==
  /\ pc = "required" /\ n < required
  /\ NIL_P(keyword_hash)
  /\ pc' = "host_fault"
  /\ UNCHANGED <<keyword_hash, table, required, optional, values, rest, extracted,
                 missing, n, m, i, ret, fault, fault_keys, error_message,
                 null_write, call_hash, call_optional>>

(* loop exit of line 55 and the test of line 70 *)
RequiredDone ==
  /\ pc = "required" /\ n >= required
  /\ IF optional # 0 /\ ~NIL_P(keyword_hash)
       THEN pc' = "optional" /\ m' = required
       ELSE pc' = "rest" /\ m' = m
  /\ NoRaise
  /\ UNCHANGED <<keyword_hash, table, required, optional, values, rest, extracted,
                 missing, n, i, ret, null_write, call_hash, call_optional>>

(* lines 71-79, one iteration *)
OptionalStep ==
  /\ pc = "optional" /\ m < required + optional
  /\ LET val == ExtractKeywordValue(keyword_hash, table[m + 1])
     IN /\ keyword_hash' = ExtractKeywordHash(keyword_hash, table[m + 1], values)
        /\ values' = StoreValue(values, m, val)
        /\ extracted' = CountOptional(extracted, val)
  /\ m' = m + 1
  /\ NoRaise
  /\ UNCHANGED <<table, required, optional, rest, missing, n, i, pc, ret,
                 null_write, call_hash, call_optional>>

OptionalDone ==
  /\ pc = "optional" /\ m >= required + optional
  /\ pc' = "rest"
  /\ NoRaise
  /\ UNCHANGED <<keyword_hash, table, required, optional, values, rest, extracted,
                 missing, n, m, i, ret, null_write, call_hash, call_optional>>

(* lines 82-86 with unknown_keyword_error, lines 28-35 *)
RestCheck ==
  /\ pc = "rest"
  /\ IF ~rest /\ ~NIL_P(keyword_hash)
        /\ RHASH_SIZE(keyword_hash) > PermittedSize(values, extracted)
       THEN /\ keyword_hash' = DeleteTableKeys(keyword_hash, table, required + optional, 0)
            /\ Raise("unknown", rb_hash_keys(keyword_hash'))
            /\ i' = i
       ELSE /\ pc' = "tail"
            /\ i' = extracted
            /\ NoRaise
            /\ UNCHANGED keyword_hash
  /\ UNCHANGED <<table, required, optional, values, rest, extracted, missing,
                 n, m, ret, null_write, call_hash, call_optional>>

(* lines 88-90, one iteration with a buffer *)
TailStep ==
  /\ pc = "tail" /\ i < required + optional
  /\ ~values.null
  /\ values' = [values EXCEPT !.slot[i + 1] = Qundef]
  /\ i' = i + 1
  /\ NoRaise
  /\ UNCHANGED <<keyword_hash, table, required, optional, rest, extracted, missing,
                 n, m, pc, ret, null_write, call_hash, call_optional>>

(* line 89 with values == NULL: the store is undefined behaviour; the build
   either traps on it or goes on as if the store had not happened *)
TailNullStore ==
  /\ pc = "tail" /\ i < required + optional
  /\ values.null
  /\ null_write' = TRUE
  /\ \/ pc' = "crashed" /\ i' = i
     \/ pc' = pc /\ i' = i + 1
  /\ NoRaise
  /\ UNCHANGED <<keyword_hash, table, required, optional, values, rest, extracted,
                 missing, n, m, ret, call_hash, call_optional>>

(* line 92 *)
Return ==
  /\ pc = "tail" /\ i >= required + optional
  /\ ret' = extracted
  /\ pc' = "done"
  /\ NoRaise
  /\ UNCHANGED <<keyword_hash, table, required, optional, values, rest, extracted,
                 missing, n, m, i, null_write, call_hash, call_optional>>

Next ==
  \/ Entry
  \/ RequiredStep
  \/ RequiredNilFault
  \/ RequiredDone
  \/ OptionalStep
  \/ OptionalDone
  \/ RestCheck
  \/ TailStep
  \/ TailNullStore
  \/ Return

Spec == Init /\ [][Next]_vars

(* ---- rb_keyword_error_new on arbitrary key arrays ---- *)
MsgKeyArrays == UNION {[1..L -> HashKeys] : L \in 0..MaxMsgKeys}

InitMsg ==
  /\ keyword_hash = NilHash /\ call_hash = NilHash
  /\ table = <<>> /\ required = 0 /\ optional = 0 /\ call_optional = 0
  /\ values = [null |-> TRUE, slot |-> <<>>]
  /\ Idle
  /\ pc = "msg"
  /\ fault \in {"missing", "unknown"}
  /\ fault_keys \in MsgKeyArrays
  /\ error_message = ""

(* lines 6-22 *)
KeywordErrorNew ==
  /\ pc = "msg"
  /\ LET e == rb_keyword_error_new(fault, fault_keys)
     IN /\ error_message' = (IF e.type_error THEN "" ELSE e.msg)
        /\ pc' = (IF e.type_error THEN "msg_type_error" ELSE "msg_done")
  /\ UNCHANGED <<keyword_hash, table, required, optional, values, rest, extracted,
                 missing, n, m, i, ret, fault, fault_keys, null_write,
                 call_hash, call_optional>>

NextMsg == KeywordErrorNew

SpecMsg == InitMsg /\ [][NextMsg]_vars

(* ---- vocabulary of the properties, all in terms of the call's inputs ---- *)
SchemaKeys == {table[j] : j \in 1..Len(table)}

OrigHas(k) == HasKey(call_hash, k)

AllRequiredPresent == \A j \in 1..required : OrigHas(table[j])

FirstMissing == CHOOSE j \in 1..required :
                  /\ ~OrigHas(table[j])
                  /\ \A l \in 1..(j - 1) : OrigHas(table[l])

OptPresent == Cardinality({j \in (required + 1)..Len(table) : OrigHas(table[j])})

IsNonSchemaEntry(e) == e[1] \notin SchemaKeys

NonSchemaEntries == SelectSeq(call_hash.tbl, IsNonSchemaEntry)

NonSchemaKeys == [j \in 1..Len(NonSchemaEntries) |-> NonSchemaEntries[j][1]]

HasExtras == NonSchemaEntries # <<>>

ExtrasAreSymbols == \A j \in 1..Len(NonSchemaKeys) : IsSymbol(NonSchemaKeys[j])

RestAllowed == call_optional < 0

ExtractMode == ~values.null

ProbeMode == values.null

InCall == pc \in {"start", "required", "optional", "rest", "tail", "done",
                  "raised", "crashed", "host_fault"}

(* ---- properties ---- *)

(* C1: an extract-mode call on a non-null hash that holds every required key,
   any optional keys, and other keys only when rest is allowed, raises nothing
   and returns required + (optional schema keys present), which lies between
   required and required + optional *)
C1_ExtractCount ==
  (InCall /\ ExtractMode /\ ~call_hash.nil /\ AllRequiredPresent
     /\ (~HasExtras \/ RestAllowed))
  => /\ pc \notin {"raised", "crashed", "host_fault"}
     /\ fault = "none"
     /\ ~null_write
     /\ pc = "done" => /\ ret = required + OptPresent
                       /\ required <= ret
                       /\ ret <= Len(table)

C1_Witness ==
  /\ pc = "done" /\ ExtractMode /\ ~call_hash.nil
  /\ required >= 1 /\ OptPresent >= 1 /\ OptPresent < Len(table) - required
  /\ HasExtras /\ RestAllowed
  /\ ret = required + OptPresent

(* C2: after a successful extract-mode call every output slot holds the value
   the hash held for its key at call time, and Qundef if the key was absent *)
C2_SlotsHoldValues ==
  (pc = "done" /\ ExtractMode)
  => \A j \in 1..Len(table) :
       values.slot[j] = IF OrigHas(table[j])
                          THEN rb_hash_lookup2(call_hash, table[j], Qundef)
                          ELSE Qundef

(* C3: when the hash lacks a required key, the call raises "missing" with
   exactly the first absent required key of the schema, and neither a later
   required key, nor the optional pass, nor the rest check runs before it *)
C3_FirstMissingOnly ==
  (InCall /\ ~call_hash.nil /\ ~AllRequiredPresent)
  => /\ pc \in {"start", "required", "raised"}
     /\ n <= FirstMissing - 1
     /\ m = 0 /\ i = 0
     /\ pc = "raised" => /\ fault = "missing"
                         /\ fault_keys = <<table[FirstMissing]>>
                         /\ Len(fault_keys) = 1
                         /\ n = FirstMissing - 1

C3_Witness ==
  /\ pc = "raised" /\ fault = "missing"
  /\ ~call_hash.nil /\ HasExtras
  /\ Cardinality({j \in 1..required : ~OrigHas(table[j])}) >= 2
  /\ FirstMissing >= 2
  /\ fault_keys = <<table[FirstMissing]>>

(* C4 as stated: without rest, on a non-null hash holding all required keys,
   "unknown" is raised exactly when the hash holds a key outside the schema,
   in extract and in probe mode alike, and the raised key list is the
   non-schema keys of the original hash in insertion order, hence never
   empty *)
C4_UnknownIffExtras ==
  (~RestAllowed /\ ~call_hash.nil /\ AllRequiredPresent
     /\ pc \in {"tail", "done", "crashed", "raised"})
  => /\ (fault = "unknown") <=> HasExtras
     /\ (pc = "raised") <=> HasExtras
     /\ fault = "unknown" => /\ fault_keys = NonSchemaKeys
                             /\ fault_keys # <<>>

(* C4 amended: under the same conditions the call raises exactly when the
   hash holds a key outside the schema; it raises "unknown" when all those
   keys are Symbols, with the non-schema keys in insertion order as its
   never empty key list, and the TypeError of Check_Type when one of them is
   not a Symbol; extract and probe mode alike *)
C4_UnknownIffSymbolExtras ==
  (~RestAllowed /\ ~call_hash.nil /\ AllRequiredPresent
     /\ pc \in {"tail", "done", "crashed", "raised"})
  => /\ (fault = "unknown") <=> (HasExtras /\ ExtrasAreSymbols)
     /\ (fault = "type") <=> (HasExtras /\ ~ExtrasAreSymbols)
     /\ (pc = "raised") <=> HasExtras
     /\ fault = "unknown" => /\ fault_keys = NonSchemaKeys
                             /\ fault_keys # <<>>
     /\ fault = "type" => fault_keys = NonSchemaKeys

C4_Witness ==
  /\ pc = "raised" /\ fault = "unknown" /\ ProbeMode
  /\ ~RestAllowed /\ ~call_hash.nil
  /\ required >= 1
  /\ Len(fault_keys) >= 2
  /\ fault_keys = NonSchemaKeys

(* C5: after a successful extract-mode call on a non-null hash, the hash is
   the original one without the schema keys, the other entries in place with
   their values and order; it is empty when rest is not allowed *)
C5_HashAfterExtract ==
  (pc = "done" /\ ExtractMode /\ ~call_hash.nil)
  => /\ keyword_hash = [nil |-> FALSE, tbl |-> NonSchemaEntries]
     /\ ~RestAllowed => keyword_hash.tbl = <<>>

C5_Witness ==
  /\ pc = "done" /\ ExtractMode /\ ~call_hash.nil /\ RestAllowed
  /\ Len(NonSchemaEntries) >= 2
  /\ Len(call_hash.tbl) > Len(NonSchemaEntries)
  /\ call_hash.tbl[1][1] \notin SchemaKeys
  /\ call_hash.tbl[Len(call_hash.tbl)][1] \notin SchemaKeys
  /\ keyword_hash.tbl = NonSchemaEntries

(* C6 as stated: in probe mode the hash is never mutated, whatever the
   outcome of the call *)
C6_ProbeNeverMutates ==
  (InCall /\ ProbeMode) => keyword_hash = call_hash

(* C6 amended: in probe mode the hash is unchanged at every point of the
   call, unless unknown_keyword_error is entered, which raises "unknown" or,
   on a leftover key that is not a Symbol, TypeError; then it is the original
   hash without the schema keys *)
C6_ProbeMutatesOnlyOnUnknown ==
  (InCall /\ ProbeMode)
  => IF fault \in {"unknown", "type"}
       THEN keyword_hash = [nil |-> FALSE, tbl |-> NonSchemaEntries]
       ELSE keyword_hash = call_hash

C6_Witness ==
  /\ ProbeMode /\ pc = "raised" /\ fault = "unknown"
  /\ keyword_hash # call_hash
  /\ keyword_hash.tbl = NonSchemaEntries

(* C7: in probe mode a call on a hash that holds all required keys and no
   disallowed extra key (or on nil with no required key) only validates: it
   stores nothing through the absent buffer and returns required + (optional
   keys present) *)
C7_ProbeNoStore ==
  (InCall /\ ProbeMode /\ (call_hash.nil => required = 0)
     /\ AllRequiredPresent /\ (~HasExtras \/ RestAllowed))
  => /\ ~null_write
     /\ pc \notin {"crashed", "raised", "host_fault"}
     /\ pc = "done" => ret = required + OptPresent

(* C9: faults leave earlier deletions in place.  Extract mode, "missing" on
   required index k: the hash is the original without required keys 0..k-1,
   all of which were present, and slots 0..k-1 hold their values.  "unknown"
   (and the TypeError raised in its place): the hash holds no schema key and
   exactly the original non-schema entries *)
C9_NoRollback ==
  (pc = "raised" /\ ~call_hash.nil)
  => /\ (fault = "missing" /\ ExtractMode)
        => LET k == FirstMissing - 1
               done == {table[j] : j \in 1..k}
               IsNotDone(e) == e[1] \notin done
           IN /\ keyword_hash.tbl = SelectSeq(call_hash.tbl, IsNotDone)
              /\ \A j \in 1..k :
                   /\ OrigHas(table[j])
                   /\ values.slot[j] = rb_hash_lookup2(call_hash, table[j], Qundef)
     /\ fault \in {"unknown", "type"}
        => /\ \A j \in 1..Len(keyword_hash.tbl) : keyword_hash.tbl[j][1] \notin SchemaKeys
           /\ keyword_hash.tbl = NonSchemaEntries

C9_Witness ==
  /\ pc = "raised" /\ fault = "missing" /\ ExtractMode /\ ~call_hash.nil
  /\ FirstMissing = 3
  /\ HasExtras
  /\ Len(keyword_hash.tbl) = Len(call_hash.tbl) - 2
  /\ values.slot[1] # values.slot[2]

(* C10 as stated: a negative optional count c allows rest and stands for |c|
   optional keys; a count c >= 0 forbids rest and stands for c optional keys *)
C10_MagnitudeIsCount ==
  (InCall /\ pc # "start")
  => /\ call_optional < 0 => (rest /\ optional = -call_optional)
     /\ call_optional >= 0 => (~rest /\ optional = call_optional)

(* C10 amended: a negative count c allows rest and stands for |c| - 1
   optional keys (c = -1 - O); a count c >= 0 forbids rest and stands for c
   optional keys; the optional pass runs over exactly that many schema
   indices *)
C10_MagnitudeMinusOne ==
  (InCall /\ pc # "start")
  => /\ call_optional < 0 => (rest /\ optional = (0 - call_optional) - 1)
     /\ call_optional >= 0 => (~rest /\ optional = call_optional)
     /\ required + optional = Len(table)
     /\ pc = "optional" => (required <= m /\ m <= required + optional)
     /\ (pc \in {"rest", "tail", "done"} /\ optional # 0 /\ ~call_hash.nil)
        => m = required + optional

C10_Witness ==
  /\ pc = "done" /\ call_optional = -3 /\ rest /\ optional = 2
  /\ m = required + 2 /\ ~call_hash.nil

(* C8: the message built for a list of Symbols is the error word,
   " keyword", an "s" iff the key list has more than one entry, and for a
   non-empty list ": " followed by the key names in list order separated by
   ", " with nothing after the last; a message is built exactly when every
   key is a Symbol *)
RECURSIVE JoinNames(_)
JoinNames(ks) ==
  IF Len(ks) = 1
    THEN SymNames[ks[1]]
    ELSE JoinNames(SubSeq(ks, 1, Len(ks) - 1)) \o ", " \o SymNames[ks[Len(ks)]]

ExpectedMessage(w, ks) ==
  w \o " keyword" \o (IF Len(ks) > 1 THEN "s" ELSE "")
    \o (IF ks = <<>> THEN "" ELSE ": " \o JoinNames(ks))

C8_MessageFormat ==
  /\ (pc \in {"msg_done", "msg_type_error"})
       => ((pc = "msg_done") <=> (\A j \in 1..Len(fault_keys) : IsSymbol(fault_keys[j])))
  /\ (pc = "msg_done")
       => /\ error_message = ExpectedMessage(fault, fault_keys)
          /\ (fault = "missing" /\ fault_keys = <<1>>) => error_message = "missing keyword: a"
          /\ (fault = "unknown" /\ fault_keys = <<1, 2>>) => error_message = "unknown keywords: a, b"
          /\ (fault = "unknown" /\ fault_keys = <<>>) => error_message = "unknown keyword"

C8_Witness ==
  /\ pc = "msg_done" /\ fault = "missing" /\ fault_keys = <<3, 1, 2>>
  /\ error_message = "missing keywords: c, a, b"
====
